---- MODULE Spec2Model ----
(***************************************************************************)
(* A model of mimalloc's arena layer (src/arena.c): the arena registry,    *)
(* the per-arena atomic bitmap allocator, the memory-id codec, the free    *)
(* router and the huge-page arena builder with its NUMA interleaving       *)
(* driver.  Every atomic access of the C code to shared memory (registry   *)
(* slot, slot counter, bitmap field, search index) is one step of a        *)
(* thread; everything a thread does between two such accesses is local     *)
(* and belongs to the step.                                                *)
(*                                                                         *)
(* Sizes are scaled: a bitmap field has MI_BITMAP_FIELD_BITS bits (64 in   *)
(* the build), size_t has SIZE_BITS bits (64 in the build), a segment is   *)
(* MI_SEGMENT_SIZE bytes (4MiB in the build) and the registry has          *)
(* MI_MAX_ARENAS slots (64 in the build).  mi_assert_internal is compiled  *)
(* out (release build), so an assertion never stops a call.                *)
(***************************************************************************)
EXTENDS Integers, FiniteSets, Sequences, Bags, TLC

\* ------------------------------------------------------------------ bounds
NThreads == 2               \* threads calling into the arena layer
MaxBuilt == 4               \* arena descriptors the OS has room for
MaxPages == 2               \* huge pages asked of one reservation
MaxNumaNodes == 2           \* NUMA nodes the OS may report
MaxInterleavePages == 5     \* page budget of an interleaved reservation
SIZE_BITS == 12             \* width of size_t (more than 8: the memid tag)
MI_BITMAP_FIELD_BITS == 4   \* bits of one bitmap field (8*MI_INTPTR_SIZE)
MI_SEGMENT_SIZE == 2        \* bytes of a segment
MI_MAX_ARENAS == 2          \* arena.c:53, scaled
HugePageBlocks == 3         \* arena blocks in one huge OS page
MaxBogusFrees == 1          \* frees of what the caller does not hold
MaxBuiltSeq == 2            \* descriptors built in a sequential run
MaxLive == 2                \* allocations held or under way in a sequential run
MaxBuiltConc == 1           \* descriptors built in a concurrent run
MaxLiveConc == 3            \* allocations held or under way in a concurrent run
MaxInterleaveNodes == 3     \* NUMA nodes of an interleaved reservation
MaxLiveRegistry == 2        \* allocations held or under way in a registry run

\* -------------------------------------------------------- program constants
MI_MEMID_OS == 0
ENOMEM == 12

MI_SEGMENT_ALIGN == MI_SEGMENT_SIZE
MI_ARENA_BLOCK_SIZE == 8 * MI_SEGMENT_ALIGN
MI_ARENA_MAX_OBJ_SIZE == MI_BITMAP_FIELD_BITS * MI_ARENA_BLOCK_SIZE
MI_ARENA_MIN_OBJ_SIZE == MI_ARENA_BLOCK_SIZE \div 2

NULL == 0
SIZE_MOD == 2 ^ SIZE_BITS
Threads == 1 .. NThreads
Slots == 0 .. (MI_MAX_ARENAS - 1)
FieldBits == 0 .. (MI_BITMAP_FIELD_BITS - 1)
MI_BITMAP_FIELD_FULL == FieldBits
HugePageSize == HugePageBlocks * MI_ARENA_BLOCK_SIZE

Min(S) == CHOOSE x \in S : \A y \in S : x <= y

\* ------------------------------------------------------- memory-id codec
\* size_t arithmetic: the shift and the biased tag wrap at SIZE_BITS bits.
mi_memid_create_unbiased(arena_index, bitmap_index) ==
    ((bitmap_index * 256) % SIZE_MOD) + (arena_index % 256)

mi_memid_create(arena_index, bitmap_index) ==
    \* (bitmap_index << 8) | ((arena_index+1) & 0xFF): the shifted value has
    \* its low 8 bits clear, so the bitwise or is a sum.
    ((bitmap_index * 256) % SIZE_MOD) + ((arena_index + 1) % 256)

mi_memid_arena_index_biased(memid) == memid % 256
mi_memid_arena_index(memid) == ((memid % 256) - 1) % SIZE_MOD
mi_memid_bitmap_index(memid) == memid \div 256

mi_block_count_of_size(size) ==
    (size + MI_ARENA_BLOCK_SIZE - 1) \div MI_ARENA_BLOCK_SIZE

\* ------------------------------------------------------ bitmap primitive
\* A field is the set of its bits that are 1.
mi_bitmap_index_create(idx, bitidx) == (idx * MI_BITMAP_FIELD_BITS) + bitidx
mi_bitmap_index_field(bitmap_idx) == bitmap_idx \div MI_BITMAP_FIELD_BITS
mi_bitmap_index_bit_in_field(bitmap_idx) == bitmap_idx % MI_BITMAP_FIELD_BITS
mi_bitmap_index_bit(bitmap_idx) == bitmap_idx

\* The word-sized mask of `count` bits at `bitidx`: bits shifted past the
\* top of the word are lost.
mi_bitmap_mask_(count, bitidx) ==
    IF count >= MI_BITMAP_FIELD_BITS THEN MI_BITMAP_FIELD_FULL
    ELSE {b \in FieldBits : bitidx <= b /\ b < bitidx + count}

\* The lowest bit index >= from at which `count` bits of `map` are all 0,
\* or MI_BITMAP_FIELD_BITS when there is none.
mi_bitmap_find_fit(map, count, from) ==
    LET fits == {b \in from .. (MI_BITMAP_FIELD_BITS - count) :
                    mi_bitmap_mask_(count, b) \cap map = {}}
    IN IF fits = {} THEN MI_BITMAP_FIELD_BITS ELSE Min(fits)

\* Atomic or of the mask into bitmap[idx]: the new field, and whether all the
\* bits were 0 before.
mi_bitmap_claim_field(field, count, bitmap_idx) ==
    LET mask == mi_bitmap_mask_(count, mi_bitmap_index_bit_in_field(bitmap_idx))
    IN [field |-> field \cup mask, all_zero |-> (field \cap mask = {})]

\* Atomic and of the complement of the mask into bitmap[idx]: the new field,
\* and whether all the bits were 1 before.
mi_bitmap_unclaim_field(field, count, bitmap_idx) ==
    LET mask == mi_bitmap_mask_(count, mi_bitmap_index_bit_in_field(bitmap_idx))
    IN [field |-> field \ mask, all_one |-> (mask \subseteq field)]

\* ------------------------------------------------------------------ state
VARIABLES
    mi_arenas,        \* the registry: slot -> descriptor id, or NULL
    mi_arena_count,   \* the slot counter
    arenas,           \* the descriptors built so far (id = position)
    numa_count,       \* what _mi_os_numa_node_count() reports
    pc,               \* where each thread is in its call
    loc,              \* the locals of each thread's call
    ilv,              \* the frame of mi_reserve_huge_os_pages_interleave
    res,              \* what each thread's last call returned
    live,             \* arena allocations granted and not yet freed
    oob,              \* the registry was read outside its MI_MAX_ARENAS slots
    codec,            \* a memid under test: the pair, its id, the id decoded
    bogus,            \* how many times FreeAny was called
    trip,             \* history: the bitmaps before the latest allocation
    ever              \* history: the blocks granted so far, <<descriptor, bit>>

vars == <<mi_arenas, mi_arena_count, arenas, numa_count, pc, loc, ilv, res,
          live, oob, codec, bogus, trip, ever>>

NoLocals == [op |-> "none"]
NoResult == [op |-> "none"]
NoFrame == [active |-> FALSE]
NoCodec == [op |-> "none"]

ArenaIds == 1 .. Len(arenas)

\* The arena a registry slot points to.
ArenaAt(i) == arenas[mi_arenas[i]]

\* The in-use bitmap is the first field_count words of the descriptor's
\* trailing storage; blocks_dirty points dirty_base words into it.
InUse(a, idx) == arenas[a].mem[idx]
DirtyInside(a, idx) == arenas[a].dirty_base + idx < arenas[a].words

InitWith(numa_counts, codecs) ==
    /\ mi_arenas = [i \in Slots |-> NULL]
    /\ mi_arena_count = 0
    /\ arenas = << >>
    /\ numa_count \in numa_counts
    /\ pc = [t \in Threads |-> "idle"]
    /\ loc = [t \in Threads |-> NoLocals]
    /\ ilv = [t \in Threads |-> NoFrame]
    /\ res = [t \in Threads |-> NoResult]
    /\ live = EmptyBag
    /\ oob = FALSE
    /\ codec \in codecs
    /\ bogus = 0
    /\ trip = [phase |-> "none"]
    /\ ever = {}

Init == InitWith(1 .. MaxNumaNodes, {NoCodec})

\* ------------------------------------------------ reserve a huge page arena
\* The descriptor mi_reserve_huge_os_pages_at builds for `hsize` bytes of huge
\* pages at `p`.  Its storage is the header, which ends with blocks_map[1],
\* and 2*fields more words; blocks_dirty is &blocks_map[bcount].
mi_arena_new_unpadded(p, hsize, numa_node) ==
    LET bcount == mi_block_count_of_size(hsize)
        fields == (bcount + MI_BITMAP_FIELD_BITS - 1) \div MI_BITMAP_FIELD_BITS
        words == 1 + (2 * fields)
    IN [start |-> p,
        block_count |-> bcount,
        field_count |-> fields,
        numa_node |-> numa_node,
        is_zero_init |-> TRUE,
        is_large |-> TRUE,
        search_idx |-> 0,
        dirty_base |-> bcount,
        words |-> words,
        mem |-> [w \in 0 .. (words - 1) |-> {}]]

mi_arena_new(p, hsize, numa_node) ==
    LET bcount == mi_block_count_of_size(hsize)
        fields == (bcount + MI_BITMAP_FIELD_BITS - 1) \div MI_BITMAP_FIELD_BITS
        words == 1 + (2 * fields)
        post == (fields * MI_BITMAP_FIELD_BITS) - bcount
        postidx == mi_bitmap_index_create(fields - 1, MI_BITMAP_FIELD_BITS - post)
        zeroed == [w \in 0 .. (words - 1) |-> {}]
    IN [start |-> p,
        block_count |-> bcount,
        field_count |-> fields,
        numa_node |-> numa_node,
        is_zero_init |-> TRUE,
        is_large |-> TRUE,
        search_idx |-> 0,
        dirty_base |-> bcount,
        words |-> words,
        mem |-> IF post > 0
                THEN [zeroed EXCEPT ![fields - 1] =
                        mi_bitmap_claim_field(@, post, postidx).field]
                ELSE zeroed]

\* Where the OS puts the huge pages of the id-th reservation: regions are
\* segment aligned, never NULL and never overlap.
OsHugeAddress(id) == id * ((MaxPages + 1) * HugePageSize)

\* mi_reserve_huge_os_pages_at returns `err`: to the interleaving driver's
\* loop (lines 318-324) when that called it, to the thread's caller otherwise.
ReserveReturn(t, err) ==
    /\ loc' = [loc EXCEPT ![t] = NoLocals]
    /\ IF ilv[t].active
       THEN IF err # 0
            THEN /\ pc' = [pc EXCEPT ![t] = "done"]
                 /\ ilv' = [ilv EXCEPT ![t] = NoFrame]
                 /\ res' = [res EXCEPT ![t] =
                        [op |-> "interleave", err |-> err, pages |-> ilv[t].P,
                         numa_count |-> ilv[t].numa_count,
                         requested |-> ilv[t].requested]]
            ELSE /\ pc' = [pc EXCEPT ![t] = "interleave"]
                 /\ ilv' = [ilv EXCEPT ![t].pages =
                                IF @ < ilv[t].node_pages THEN 0
                                ELSE @ - ilv[t].node_pages,
                             ![t].numa_node = @ + 1]
                 /\ res' = res
       ELSE /\ pc' = [pc EXCEPT ![t] = "done"]
            /\ ilv' = ilv
            /\ res' = [res EXCEPT ![t] = [op |-> "reserve", err |-> err]]

\* mi_arena_add, line 243: the slot that mi_atomic_addu(&mi_arena_count, 1)
\* reserves when the counter holds `count`: the value before the addition.
mi_arena_add_slot_last(count) ==
    IF count >= MI_MAX_ARENAS THEN MI_MAX_ARENAS - 1 ELSE count
mi_arena_add_slot_next(count) == count + 1
mi_arena_add_slot(count) == count

\* Lines 259-296 and the counter increment of mi_arena_add (line 243), which
\* is the call's first access to shared memory.  The OS may fail to reserve,
\* or reserve fewer pages than asked; it has room for MaxBuilt reservations.
mi_reserve_huge_os_pages_at(t, pages, numa_node0) ==
    LET numa_node == IF numa_node0 < -1 THEN -1
                     ELSE IF numa_node0 >= 0 THEN numa_node0 % numa_count
                     ELSE numa_node0
        id == Len(arenas) + 1
        i == mi_arena_add_slot(mi_arena_count)
    IN IF pages = 0
       THEN /\ ReserveReturn(t, 0)
            /\ UNCHANGED <<mi_arenas, mi_arena_count, arenas>>
       ELSE \/ \* p == NULL or pages_reserved == 0, or no memory for the
               \* descriptor (the huge pages are given back)
               /\ ReserveReturn(t, ENOMEM)
               /\ UNCHANGED <<mi_arenas, mi_arena_count, arenas>>
            \/ /\ Len(arenas) < MaxBuilt
               /\ \E pages_reserved \in 1 .. pages :
                     arenas' = Append(arenas,
                        mi_arena_new(OsHugeAddress(id),
                                     pages_reserved * HugePageSize, numa_node))
               /\ mi_arena_count' = mi_arena_count + 1
               /\ pc' = [pc EXCEPT ![t] =
                            IF i >= MI_MAX_ARENAS THEN "rollback" ELSE "publish"]
               /\ loc' = [loc EXCEPT ![t] = [op |-> "reserve", i |-> i, arena |-> id]]
               /\ UNCHANGED <<mi_arenas, ilv, res>>

ReserveAtOf(t, page_counts, numa_nodes) ==
    /\ pc[t] = "idle"
    /\ \E pages \in page_counts, numa_node \in numa_nodes :
          mi_reserve_huge_os_pages_at(t, pages, numa_node)
    /\ UNCHANGED <<numa_count, live, oob, codec, bogus>>

ReserveAt(t) == ReserveAtOf(t, 0 .. MaxPages, -2 .. MaxNumaNodes)

\* mi_arena_add, lines 244-247: the registry is full.
ArenaAddRollback_twice(t) ==
    /\ pc[t] = "rollback"
    /\ mi_arena_count' = mi_arena_count - 2
    /\ ReserveReturn(t, 0)
    /\ UNCHANGED <<mi_arenas, arenas, numa_count, live, oob, codec, bogus>>

ArenaAddRollback(t) ==
    /\ pc[t] = "rollback"
    /\ mi_arena_count' = mi_arena_count - 1
    /\ ReserveReturn(t, 0)
    /\ UNCHANGED <<mi_arenas, arenas, numa_count, live, oob, codec, bogus>>

\* mi_arena_add, line 248.
ArenaAddPublish(t) ==
    /\ pc[t] = "publish"
    /\ mi_arenas' = [mi_arenas EXCEPT ![loc[t].i] = loc[t].arena]
    /\ ReserveReturn(t, 0)
    /\ UNCHANGED <<mi_arena_count, arenas, numa_count, live, oob, codec, bogus>>

\* mi_reserve_huge_os_pages_interleave, lines 304-311.
Interleave(t) ==
    /\ pc[t] = "idle"
    /\ \E pages \in 0 .. MaxInterleavePages :
          LET count == IF numa_count <= 0 THEN 1 ELSE numa_count
          IN IF pages = 0
             THEN /\ res' = [res EXCEPT ![t] =
                        [op |-> "interleave", err |-> 0, pages |-> 0,
                         numa_count |-> count, requested |-> << >>]]
                  /\ pc' = [pc EXCEPT ![t] = "done"]
                  /\ ilv' = ilv
             ELSE /\ pc' = [pc EXCEPT ![t] = "interleave"]
                  /\ ilv' = [ilv EXCEPT ![t] =
                        [active |-> TRUE, P |-> pages, pages |-> pages,
                         numa_count |-> count,
                         pages_per |-> pages \div count,
                         pages_mod |-> pages % count,
                         numa_node |-> 0, node_pages |-> 0,
                         requested |-> << >>]]
                  /\ res' = res
    /\ UNCHANGED <<mi_arenas, mi_arena_count, arenas, numa_count, loc, live,
                   oob, codec, bogus>>

\* Lines 315-316: the pages asked of one node.
mi_interleave_node_pages_upto(pages_per, pages_mod, numa_node) ==
    IF numa_node <= pages_mod THEN pages_per + 1 ELSE pages_per
mi_interleave_node_pages(pages_per, pages_mod, numa_node) ==
    IF numa_node < pages_mod THEN pages_per + 1 ELSE pages_per

\* The head of the loop, lines 314-316, or its end, line 327.
InterleaveNode(t) ==
    /\ pc[t] = "interleave"
    /\ LET f == ilv[t]
           node_pages == mi_interleave_node_pages(f.pages_per, f.pages_mod,
                                                  f.numa_node)
       IN IF f.numa_node < f.numa_count /\ f.pages > 0
          THEN /\ pc' = [pc EXCEPT ![t] = "interleave_at"]
               /\ ilv' = [ilv EXCEPT ![t].node_pages = node_pages,
                                     ![t].requested =
                                        Append(@, <<f.numa_node, node_pages>>)]
               /\ res' = res
          ELSE /\ pc' = [pc EXCEPT ![t] = "done"]
               /\ ilv' = [ilv EXCEPT ![t] = NoFrame]
               /\ res' = [res EXCEPT ![t] =
                     [op |-> "interleave", err |-> 0, pages |-> f.P,
                      numa_count |-> f.numa_count, requested |-> f.requested]]
    /\ UNCHANGED <<mi_arenas, mi_arena_count, arenas, numa_count, loc, live,
                   oob, codec, bogus>>

\* The call of line 317.
InterleaveReserveAt(t) ==
    /\ pc[t] = "interleave_at"
    /\ mi_reserve_huge_os_pages_at(t, ilv[t].node_pages, ilv[t].numa_node)
    /\ UNCHANGED <<numa_count, live, oob, codec, bogus>>

\* ------------------------------------------------------- arena allocation
\* Lines 148-150: is an arena tried at all?
mi_arena_eligible_above_min(size, alignment) ==
    /\ alignment <= MI_SEGMENT_ALIGN
    /\ size <= MI_ARENA_MAX_OBJ_SIZE
    /\ size > MI_ARENA_MIN_OBJ_SIZE
mi_arena_eligible_any_alignment(size, alignment) ==
    /\ size <= MI_ARENA_MAX_OBJ_SIZE
    /\ size >= MI_ARENA_MIN_OBJ_SIZE
mi_arena_eligible(size, alignment) ==
    /\ alignment <= MI_SEGMENT_ALIGN
    /\ size <= MI_ARENA_MAX_OBJ_SIZE
    /\ size >= MI_ARENA_MIN_OBJ_SIZE

\* Line 160 (pass 1) and line 172 (pass 2).
mi_numa_local_any(arena_node, numa_node) == TRUE
mi_numa_local(arena_node, numa_node) == arena_node < 0 \/ arena_node = numa_node
mi_numa_other(arena_node, numa_node) == arena_node >= 0 /\ arena_node # numa_node

\* Lines 161 and 173.
mi_large_allowed_always(large, is_large) == TRUE
mi_large_allowed(large, is_large) == large \/ ~is_large

\* The requests the threads make.
AllocSizes ==
    {MI_ARENA_MIN_OBJ_SIZE - 1, MI_ARENA_MIN_OBJ_SIZE, MI_ARENA_BLOCK_SIZE + 1,
     MI_ARENA_MAX_OBJ_SIZE, MI_ARENA_MAX_OBJ_SIZE + 1}
AllocAlignments == {MI_SEGMENT_ALIGN, 2 * MI_SEGMENT_ALIGN}
LargeArgs == {"null", "false", "true"}

\* The slots a scan of the registry visits now: those before the first NULL.
Visible == {i \in Slots : \A j \in 0 .. i : mi_arenas[j] # NULL}

\* _mi_arena_alloc_aligned, lines 141-155 (and the fall through to line 182
\* when the request is not eligible).
AllocEnter(t, size, alignment, large_arg, numa_node) ==
    /\ pc[t] = "idle"
    /\ loc' = [loc EXCEPT ![t] =
          [op |-> "alloc", size |-> size, alignment |-> alignment,
           large_arg |-> large_arg, large |-> (large_arg = "true"),
           tried |-> mi_arena_eligible(size, alignment),
           bcount |-> mi_block_count_of_size(size), numa_node |-> numa_node,
           pass |-> 1, i |-> 0, visible |-> Visible, failed |-> {},
           arena |-> NULL, fcount |-> 0, idx |-> 0, visited |-> 0,
           map |-> {}, bitidx |-> 0, bitmap_index |-> 0]]
    /\ pc' = [pc EXCEPT ![t] =
                IF mi_arena_eligible(size, alignment) THEN "scan" ELSE "os"]
    /\ UNCHANGED <<mi_arenas, mi_arena_count, arenas, numa_count, ilv, res,
                   live, oob, codec, bogus>>

\* numa_node is what _mi_os_numa_node(tld) gives at line 153.
AllocAlignedOf(t, sizes, alignments, large_args) ==
    \E size \in sizes, alignment \in alignments, large_arg \in large_args,
       numa_node \in 0 .. (numa_count - 1) :
        AllocEnter(t, size, alignment, large_arg, numa_node)

AllocAligned(t) == AllocAlignedOf(t, AllocSizes, AllocAlignments, LargeArgs)

\* _mi_arena_alloc, lines 191-194.
Alloc(t) ==
    \E size \in AllocSizes, large_arg \in LargeArgs,
       numa_node \in 0 .. (numa_count - 1) :
        AllocEnter(t, size, MI_ARENA_BLOCK_SIZE, large_arg, numa_node)

\* One turn of the loop of pass 1 (lines 157-162) or pass 2 (lines 169-174):
\* read the slot; on a suitable arena enter mi_arena_alloc (lines 103-104).
AllocScan(t) ==
    /\ pc[t] = "scan"
    /\ LET l == loc[t]
           a == mi_arenas[l.i]
       IN IF l.i < MI_MAX_ARENAS /\ a # NULL
          THEN IF /\ IF l.pass = 1
                     THEN mi_numa_local(arenas[a].numa_node, l.numa_node)
                     ELSE mi_numa_other(arenas[a].numa_node, l.numa_node)
                  /\ mi_large_allowed(l.large, arenas[a].is_large)
               THEN /\ loc' = [loc EXCEPT ![t].arena = a,
                                          ![t].fcount = arenas[a].field_count,
                                          ![t].idx = arenas[a].search_idx,
                                          ![t].visited = 0]
                    /\ pc' = [pc EXCEPT ![t] = "field"]
               ELSE /\ loc' = [loc EXCEPT ![t].i = @ + 1]
                    /\ pc' = pc
          ELSE IF l.pass = 1
               THEN /\ loc' = [loc EXCEPT ![t].pass = 2, ![t].i = 0]
                    /\ pc' = pc
               ELSE /\ loc' = loc
                    /\ pc' = [pc EXCEPT ![t] = "os"]
    /\ UNCHANGED <<mi_arenas, mi_arena_count, arenas, numa_count, ilv, res,
                   live, oob, codec, bogus>>

\* The field at `idx` gave no fit: lines 105 and 111-112, and back in the
\* caller lines 132 and 165-166 (177-178) when all fields were visited.
AllocNextField_no_wrap(t, idx) ==
    LET l == loc[t]
    IN IF l.visited + 1 < l.fcount /\ idx + 1 < l.fcount
       THEN /\ loc' = [loc EXCEPT ![t].visited = @ + 1, ![t].idx = idx + 1]
            /\ pc' = [pc EXCEPT ![t] = "field"]
       ELSE /\ loc' = [loc EXCEPT ![t].failed = @ \cup {<<l.pass, l.i>>},
                                  ![t].i = @ + 1, ![t].arena = NULL,
                                  ![t].fcount = 0, ![t].idx = 0,
                                  ![t].visited = 0, ![t].map = {},
                                  ![t].bitidx = 0]
            /\ pc' = [pc EXCEPT ![t] = "scan"]

AllocNextField(t, idx) ==
    LET l == loc[t]
    IN IF l.visited + 1 < l.fcount
       THEN /\ loc' = [loc EXCEPT ![t].visited = @ + 1, ![t].idx = idx + 1]
            /\ pc' = [pc EXCEPT ![t] = "field"]
       ELSE /\ loc' = [loc EXCEPT ![t].failed = @ \cup {<<l.pass, l.i>>},
                                  ![t].i = @ + 1, ![t].arena = NULL,
                                  ![t].fcount = 0, ![t].idx = 0,
                                  ![t].visited = 0, ![t].map = {},
                                  ![t].bitidx = 0]
            /\ pc' = [pc EXCEPT ![t] = "scan"]

\* mi_arena_alloc, lines 106-107, into mi_bitmap_try_claim_field: read the
\* field and look for `bcount` zero bits in the value read.
AllocReadField(t) ==
    /\ pc[t] = "field"
    /\ LET l == loc[t]
           idx == IF l.idx >= l.fcount THEN 0 ELSE l.idx
           map == InUse(l.arena, idx)
           bitidx == IF map = MI_BITMAP_FIELD_FULL THEN MI_BITMAP_FIELD_BITS
                     ELSE mi_bitmap_find_fit(map, l.bcount, 0)
       IN IF bitidx < MI_BITMAP_FIELD_BITS
          THEN /\ loc' = [loc EXCEPT ![t].idx = idx, ![t].map = map,
                                     ![t].bitidx = bitidx]
               /\ pc' = [pc EXCEPT ![t] = "cas"]
          ELSE AllocNextField(t, idx)
    /\ UNCHANGED <<mi_arenas, mi_arena_count, arenas, numa_count, ilv, res,
                   live, oob, codec, bogus>>

\* mi_bitmap_try_claim_field's compare-and-swap of the field: on success the
\* bits are claimed; on failure the field is read again and the search goes on
\* from the same bit index.
AllocCas(t) ==
    /\ pc[t] = "cas"
    /\ LET l == loc[t]
           cur == InUse(l.arena, l.idx)
           again == mi_bitmap_find_fit(cur, l.bcount, l.bitidx)
       IN IF cur = l.map
          THEN /\ arenas' = [arenas EXCEPT ![l.arena].mem[l.idx] =
                                cur \cup mi_bitmap_mask_(l.bcount, l.bitidx)]
               /\ loc' = [loc EXCEPT ![t].bitmap_index =
                                mi_bitmap_index_create(l.idx, l.bitidx)]
               /\ pc' = [pc EXCEPT ![t] = "cursor"]
          ELSE /\ arenas' = arenas
               /\ IF again < MI_BITMAP_FIELD_BITS
                  THEN /\ loc' = [loc EXCEPT ![t].map = cur, ![t].bitidx = again]
                       /\ pc' = pc
                  ELSE AllocNextField(t, l.idx)
    /\ UNCHANGED <<mi_arenas, mi_arena_count, numa_count, ilv, res, live, oob,
                   codec, bogus>>

\* mi_arena_alloc, lines 108-109.
AllocWriteSearchIdx(t) ==
    /\ pc[t] = "cursor"
    /\ arenas' = [arenas EXCEPT ![loc[t].arena].search_idx = loc[t].idx]
    /\ pc' = [pc EXCEPT ![t] = "dirty"]
    /\ UNCHANGED <<mi_arenas, mi_arena_count, numa_count, loc, ilv, res, live,
                   oob, codec, bogus>>

\* mi_arena_alloc_from, lines 126-130, and the return of line 165 (177).  The
\* dirty bits are claimed in the word blocks_dirty[field]; when that word lies
\* outside the descriptor's storage the access is undefined: what it reads is
\* arbitrary and what it writes is not part of the model's memory.
AllocClaimDirty(t) ==
    /\ pc[t] = "dirty"
    /\ LET l == loc[t]
           a == l.arena
           fld == mi_bitmap_index_field(l.bitmap_index)
           w == arenas[a].dirty_base + fld
           inside == DirtyInside(a, fld)
           claim == mi_bitmap_claim_field(arenas[a].mem[w], l.bcount, l.bitmap_index)
           memid == mi_memid_create(l.i, l.bitmap_index)
           p == arenas[a].start + (mi_bitmap_index_bit(l.bitmap_index) * MI_ARENA_BLOCK_SIZE)
       IN /\ arenas' = IF inside
                       THEN [arenas EXCEPT ![a].mem[w] = claim.field]
                       ELSE arenas
          /\ \E is_zero \in (IF inside THEN {claim.all_zero} ELSE BOOLEAN) :
                res' = [res EXCEPT ![t] =
                   [op |-> "alloc", path |-> "arena", size |-> l.size,
                    alignment |-> l.alignment, large_arg |-> l.large_arg,
                    numa_node |-> l.numa_node, tried |-> l.tried,
                    bcount |-> l.bcount,
                    visible |-> l.visible, failed |-> l.failed,
                    pass |-> l.pass, slot |-> l.i, arena |-> a,
                    bitmap_index |-> l.bitmap_index, p |-> p, memid |-> memid,
                    commit |-> TRUE, large |-> arenas[a].is_large,
                    is_zero |-> is_zero]]
          /\ live' = live (+) SetToBag({[memid |-> memid, size |-> l.size,
                                         slot |-> l.i,
                                         bitmap_index |-> l.bitmap_index]})
    /\ pc' = [pc EXCEPT ![t] = "done"]
    /\ loc' = [loc EXCEPT ![t] = NoLocals]
    /\ UNCHANGED <<mi_arenas, mi_arena_count, numa_count, ilv, oob, codec, bogus>>

\* The fall back to the OS, lines 183-188.  The OS may fail (NULL); it gives
\* large pages only when asked for and the option allows them.
AllocFromOs(t) ==
    /\ pc[t] = "os"
    /\ LET l == loc[t]
       IN \E p_null \in BOOLEAN, large \in (IF l.large THEN BOOLEAN ELSE {FALSE}) :
            res' = [res EXCEPT ![t] =
               [op |-> "alloc", path |-> "os", size |-> l.size,
                alignment |-> l.alignment, large_arg |-> l.large_arg,
                numa_node |-> l.numa_node, tried |-> l.tried,
                    bcount |-> l.bcount,
                visible |-> l.visible, failed |-> l.failed,
                pass |-> l.pass, slot |-> 0, arena |-> NULL,
                bitmap_index |-> 0, p |-> IF p_null THEN NULL ELSE 1,
                memid |-> MI_MEMID_OS, large |-> large,
                is_zero |-> TRUE]]
    /\ pc' = [pc EXCEPT ![t] = "done"]
    /\ loc' = [loc EXCEPT ![t] = NoLocals]
    /\ UNCHANGED <<mi_arenas, mi_arena_count, arenas, numa_count, ilv, live,
                   oob, codec, bogus>>

\* --------------------------------------------------------------- arena free
\* What callers pass to _mi_arena_free besides what an allocation returned:
\* ids of every slot and one past the last, of every bitmap position and a
\* field past the last, an id whose tag byte is 0, and the OS id.
MaxFields == ((MaxPages * HugePageBlocks) + MI_BITMAP_FIELD_BITS - 1) \div MI_BITMAP_FIELD_BITS
FreeMemids ==
    {MI_MEMID_OS, 256} \cup
    {mi_memid_create(a, b) : a \in 0 .. MI_MAX_ARENAS,
                             b \in 0 .. (MaxFields * MI_BITMAP_FIELD_BITS)}
FreeSizes ==
    {0, MI_ARENA_MIN_OBJ_SIZE, MI_ARENA_BLOCK_SIZE + 1, MI_ARENA_MAX_OBJ_SIZE}

FreeEnter(t, p, size, memid) ==
    /\ pc' = [pc EXCEPT ![t] = "free"]
    /\ loc' = [loc EXCEPT ![t] = [op |-> "free", p |-> p, size |-> size,
                                  memid |-> memid]]
    /\ res' = res

\* A caller frees an allocation it holds, with the id and the size it got.
Free(t) ==
    /\ pc[t] = "idle"
    /\ \E x \in BagToSet(live) :
          /\ live' = live (-) SetToBag({x})
          /\ FreeEnter(t, 1, x.size, x.memid)
    /\ UNCHANGED <<mi_arenas, mi_arena_count, arenas, numa_count, ilv, oob,
                   codec, bogus>>

\* A caller frees what it does not hold: a second free, a wrong size, a
\* corrupt id, a NULL pointer.
FreeAny(t) ==
    /\ pc[t] = "idle"
    /\ bogus < MaxBogusFrees
    /\ bogus' = bogus + 1
    /\ \E p \in {NULL, 1}, size \in FreeSizes, memid \in FreeMemids :
          FreeEnter(t, p, size, memid)
    /\ UNCHANGED <<mi_arenas, mi_arena_count, arenas, numa_count, ilv, live,
                   oob, codec>>

FreeReturn(t, how, fatal) ==
    /\ pc' = [pc EXCEPT ![t] = "done"]
    /\ res' = [res EXCEPT ![t] =
          [op |-> "free", how |-> how, fatal |-> fatal, p |-> loc[t].p,
           size |-> loc[t].size, memid |-> loc[t].memid]]
    /\ loc' = [loc EXCEPT ![t] = NoLocals]

\* Line 225: the blocks a free of `size` bytes gives back.
mi_free_blocks_one_more(size) == mi_block_count_of_size(size) + 1
mi_free_blocks(size) == mi_block_count_of_size(size)

\* Lines 227-230: what is reported after the unclaim.
mi_free_report_never(ones) == "none"
mi_free_report(ones) == IF ones THEN "none" ELSE "already freed block"

\* Lines 220-230, on the descriptor `a` read from the registry.
mi_arena_free_in(t, a, bitmap_idx) ==
    LET l == loc[t]
        fld == mi_bitmap_index_field(bitmap_idx)
        blocks == mi_free_blocks(l.size)
        un == mi_bitmap_unclaim_field(arenas[a].mem[fld], blocks, bitmap_idx)
    IN IF a = NULL
       THEN /\ FreeReturn(t, "arena", "non-existent arena")
            /\ arenas' = arenas
       ELSE IF arenas[a].field_count <= fld
       THEN /\ FreeReturn(t, "arena", "non-existent arena block")
            /\ arenas' = arenas
       ELSE /\ arenas' = [arenas EXCEPT ![a].mem[fld] = un.field]
            /\ FreeReturn(t, "arena", mi_free_report(un.all_one))

\* _mi_arena_free, lines 200-232.  Line 214 reads mi_arenas[arena_idx] with
\* no check of the index: past the end of the array the read is undefined, and
\* gives NULL or any pointer, here any descriptor.
ArenaFree(t) ==
    /\ pc[t] = "free"
    /\ LET l == loc[t]
           arena_idx == mi_memid_arena_index(l.memid)
           bitmap_idx == mi_memid_bitmap_index(l.memid)
       IN IF l.p = NULL \/ l.size = 0
          THEN /\ FreeReturn(t, "nothing", "none")
               /\ UNCHANGED <<arenas, oob>>
          ELSE IF l.memid = MI_MEMID_OS
          THEN /\ FreeReturn(t, "os", "none")
               /\ UNCHANGED <<arenas, oob>>
          ELSE IF arena_idx < MI_MAX_ARENAS
          THEN /\ mi_arena_free_in(t, mi_arenas[arena_idx], bitmap_idx)
               /\ oob' = oob
          ELSE /\ \E a \in {NULL} \cup ArenaIds :
                     mi_arena_free_in(t, a, bitmap_idx)
               /\ oob' = TRUE
    /\ UNCHANGED <<mi_arenas, mi_arena_count, numa_count, ilv, live, codec, bogus>>

\* ------------------------------------------------------------ the program
\* The caller has taken the result of its call.
Return(t) ==
    /\ pc[t] = "done"
    /\ pc' = [pc EXCEPT ![t] = "idle"]
    /\ res' = [res EXCEPT ![t] = NoResult]
    /\ UNCHANGED <<mi_arenas, mi_arena_count, arenas, numa_count, loc, ilv,
                   live, oob, codec, bogus>>

ThreadStep(t) ==
    \/ Return(t)
    \/ ReserveAt(t)
    \/ ArenaAddRollback(t)
    \/ ArenaAddPublish(t)
    \/ Interleave(t)
    \/ InterleaveNode(t)
    \/ InterleaveReserveAt(t)
    \/ AllocAligned(t)
    \/ Alloc(t)
    \/ AllocScan(t)
    \/ AllocReadField(t)
    \/ AllocCas(t)
    \/ AllocWriteSearchIdx(t)
    \/ AllocClaimDirty(t)
    \/ AllocFromOs(t)
    \/ Free(t)
    \/ FreeAny(t)
    \/ ArenaFree(t)

Next == (\E t \in Threads : ThreadStep(t)) /\ UNCHANGED <<trip, ever>>

Spec == Init /\ [][Next]_vars

\* ---------------------------------------------------------------- scenarios
\* Spec is the program.  Each specification below is Spec cut down to the runs
\* of one scenario: a subset of its threads, calls and arguments, with at most
\* `built` descriptors built and `held` allocations held or under way at once.
Within(built, held) ==
    /\ Len(arenas) <= built
    /\ BagCardinality(live) + Cardinality({t \in Threads : loc[t].op = "alloc"})
         <= held

\* Eligible sizes: the boundary ones, and one of every block count.
ArenaSizes == {size \in AllocSizes : mi_arena_eligible(size, MI_SEGMENT_ALIGN)}
EverySize ==
    {MI_ARENA_MIN_OBJ_SIZE, MI_ARENA_MAX_OBJ_SIZE} \cup
    {(n * MI_ARENA_BLOCK_SIZE) + 1 : n \in 1 .. (MI_BITMAP_FIELD_BITS - 1)}

\* The in-use bitmap of every descriptor.
InUseMaps ==
    [a \in ArenaIds |-> [idx \in 0 .. (arenas[a].field_count - 1) |-> InUse(a, idx)]]

\* History for the sequential scenarios: the in-use bitmaps before thread 1's
\* latest arena allocation, kept while the next call frees just that
\* allocation, and dropped by any other call.
NoTrip == [phase |-> "none"]
TripObserved ==
    trip' =
      IF pc[1] = "idle" /\ loc'[1].op = "alloc"
      THEN [phase |-> "alloc", before |-> InUseMaps]
      ELSE IF pc[1] = "dirty" /\ trip.phase = "alloc"
      THEN [phase |-> "claimed", before |-> trip.before,
            memid |-> res'[1].memid, size |-> res'[1].size]
      ELSE IF pc[1] = "idle" /\ loc'[1].op = "free" /\ trip.phase = "claimed"
              /\ loc'[1].memid = trip.memid /\ loc'[1].size = trip.size
              /\ loc'[1].p # NULL
      THEN [trip EXCEPT !.phase = "freeing"]
      ELSE IF pc[1] = "free" /\ trip.phase = "freeing"
      THEN [trip EXCEPT !.phase = "freed"]
      ELSE IF pc[1] = "idle" \/ pc[1] = "os" \/ trip.phase = "freed"
      THEN NoTrip
      ELSE trip

CutAlloc == Within(MaxBuiltSeq, MaxLive)' /\ UNCHANGED <<trip, ever>>
CutFree == Within(MaxBuiltSeq, MaxLive)' /\ TripObserved /\ UNCHANGED ever
CutConc == Within(MaxBuiltConc, MaxLiveConc)' /\ UNCHANGED <<trip, ever>>

\* One thread allocates with every argument, frees what it holds, reserves.
NextAlloc ==
    \/ Return(1) /\ CutAlloc
    \/ ReserveAt(1) /\ CutAlloc
    \/ ArenaAddPublish(1) /\ CutAlloc
    \/ AllocAligned(1) /\ CutAlloc
    \/ Alloc(1) /\ CutAlloc
    \/ AllocScan(1) /\ CutAlloc
    \/ AllocReadField(1) /\ CutAlloc
    \/ AllocCas(1) /\ CutAlloc
    \/ AllocWriteSearchIdx(1) /\ CutAlloc
    \/ AllocClaimDirty(1) /\ CutAlloc
    \/ AllocFromOs(1) /\ CutAlloc
    \/ Free(1) /\ CutAlloc
    \/ ArenaFree(1) /\ CutAlloc
SpecAlloc == Init /\ [][NextAlloc]_vars

\* One thread allocates from arenas reserved for any node, frees what it holds
\* and what it does not.
NextFree ==
    \/ Return(1) /\ CutFree
    \/ ReserveAtOf(1, 0 .. MaxPages, {-1}) /\ CutFree
    \/ ArenaAddPublish(1) /\ CutFree
    \/ AllocAlignedOf(1, EverySize, {MI_SEGMENT_ALIGN}, {"true"})
          /\ CutFree
    \/ AllocScan(1) /\ CutFree
    \/ AllocReadField(1) /\ CutFree
    \/ AllocCas(1) /\ CutFree
    \/ AllocWriteSearchIdx(1) /\ CutFree
    \/ AllocClaimDirty(1) /\ CutFree
    \/ AllocFromOs(1) /\ CutFree
    \/ Free(1) /\ CutFree
    \/ FreeAny(1) /\ CutFree
    \/ ArenaFree(1) /\ CutFree
SpecFree == Init /\ [][NextFree]_vars

\* All threads allocate from one arena, reserved for any node, and free what
\* they hold: every interleaving of their atomic steps.
ConcStep(t) ==
    \/ Return(t) /\ CutConc
    \/ ReserveAtOf(t, {MaxPages}, {-1}) /\ CutConc
    \/ ArenaAddPublish(t) /\ CutConc
    \/ AllocAlignedOf(t, ArenaSizes, {MI_SEGMENT_ALIGN}, {"true"})
          /\ CutConc
    \/ AllocScan(t) /\ CutConc
    \/ AllocReadField(t) /\ CutConc
    \/ AllocCas(t) /\ CutConc
    \/ AllocWriteSearchIdx(t) /\ CutConc
    \/ AllocClaimDirty(t) /\ CutConc
    \/ AllocFromOs(t) /\ CutConc
    \/ Free(t) /\ CutConc
    \/ ArenaFree(t) /\ CutConc
NextConc == \E t \in Threads : ConcStep(t)
SpecConc == InitWith({1}, {NoCodec}) /\ [][NextConc]_vars

\* All threads reserve arenas of one huge page, for any node, more of them
\* than the registry has slots, and allocate two blocks and free them: every
\* interleaving of the steps of mi_arena_add with each other and with the
\* scans of the registry.
CutRegistry == Within(MaxBuilt, MaxLiveRegistry)' /\ UNCHANGED <<trip, ever>>
RegistryStep(t) ==
    \/ Return(t) /\ CutRegistry
    \/ ReserveAtOf(t, {1}, {-1}) /\ CutRegistry
    \/ ArenaAddRollback(t) /\ CutRegistry
    \/ ArenaAddPublish(t) /\ CutRegistry
    \/ AllocAlignedOf(t, {MI_ARENA_BLOCK_SIZE + 1}, {MI_SEGMENT_ALIGN}, {"true"})
          /\ CutRegistry
    \/ AllocScan(t) /\ CutRegistry
    \/ AllocReadField(t) /\ CutRegistry
    \/ AllocCas(t) /\ CutRegistry
    \/ AllocWriteSearchIdx(t) /\ CutRegistry
    \/ AllocClaimDirty(t) /\ CutRegistry
    \/ AllocFromOs(t) /\ CutRegistry
    \/ Free(t) /\ CutRegistry
    \/ ArenaFree(t) /\ CutRegistry
NextRegistry == \E t \in Threads : RegistryStep(t)
SpecRegistry == InitWith({1}, {NoCodec}) /\ [][NextRegistry]_vars

\* History for the zero flag: the blocks of every allocation an arena has
\* served so far, added when mi_arena_alloc_from returns.
EverObserved ==
    ever' = ever \cup
        UNION {{<<loc[t].arena, q>> :
                    q \in loc[t].bitmap_index ..
                           (loc[t].bitmap_index + loc[t].bcount - 1)} :
               t \in {u \in Threads : pc[u] = "dirty" /\ pc'[u] = "done"}}

\* All threads allocate from one arena and free what they hold, as in
\* SpecConc, with the history of the blocks served.
CutZero == Within(MaxBuiltConc, MaxLive)' /\ UNCHANGED trip /\ EverObserved
ZeroStep(t) ==
    \/ Return(t) /\ CutZero
    \/ ReserveAtOf(t, 1 .. MaxPages, {-1}) /\ CutZero
    \/ ArenaAddPublish(t) /\ CutZero
    \/ AllocAlignedOf(t, ArenaSizes, {MI_SEGMENT_ALIGN}, {"true"})
          /\ CutZero
    \/ AllocScan(t) /\ CutZero
    \/ AllocReadField(t) /\ CutZero
    \/ AllocCas(t) /\ CutZero
    \/ AllocWriteSearchIdx(t) /\ CutZero
    \/ AllocClaimDirty(t) /\ CutZero
    \/ AllocFromOs(t) /\ CutZero
    \/ Free(t) /\ CutZero
    \/ ArenaFree(t) /\ CutZero
NextZero == \E t \in Threads : ZeroStep(t)
SpecZero == InitWith({1}, {NoCodec}) /\ [][NextZero]_vars

\* One thread reserves huge pages interleaved over the nodes.
NextInterleave ==
    \/ Return(1) /\ UNCHANGED <<trip, ever>>
    \/ Interleave(1) /\ UNCHANGED <<trip, ever>>
    \/ InterleaveNode(1) /\ UNCHANGED <<trip, ever>>
    \/ InterleaveReserveAt(1) /\ UNCHANGED <<trip, ever>>
    \/ ArenaAddRollback(1) /\ UNCHANGED <<trip, ever>>
    \/ ArenaAddPublish(1) /\ UNCHANGED <<trip, ever>>
SpecInterleave ==
    InitWith(1 .. MaxInterleaveNodes, {NoCodec}) /\ [][NextInterleave]_vars

\* The memid codec alone: encode a pair, then decode the id.
CodecPairs ==
    {[op |-> "pair", arena_index |-> a, bitmap_index |-> b] :
        a \in 0 .. 255, b \in 0 .. ((2 * (SIZE_MOD \div 256)) - 1)}

CodecCreate ==
    /\ codec.op = "pair"
    /\ codec' = [op |-> "id", arena_index |-> codec.arena_index,
                 bitmap_index |-> codec.bitmap_index,
                 memid |-> mi_memid_create(codec.arena_index, codec.bitmap_index)]
    /\ UNCHANGED <<mi_arenas, mi_arena_count, arenas, numa_count, pc, loc, ilv,
                   res, live, oob, bogus, trip, ever>>

CodecIndices ==
    /\ codec.op = "id"
    /\ codec.memid # MI_MEMID_OS
    /\ codec' = [op |-> "indices", arena_index |-> codec.arena_index,
                 bitmap_index |-> codec.bitmap_index, memid |-> codec.memid,
                 arena_idx |-> mi_memid_arena_index(codec.memid),
                 bitmap_idx |-> mi_memid_bitmap_index(codec.memid)]
    /\ UNCHANGED <<mi_arenas, mi_arena_count, arenas, numa_count, pc, loc, ilv,
                   res, live, oob, bogus, trip, ever>>

NextCodec == CodecCreate \/ CodecIndices
SpecCodec == InitWith({1}, CodecPairs) /\ [][NextCodec]_vars

\* ------------------------------------------------------------------ claims
\* The blocks of an allocation the model holds in `live`, as bit positions
\* counted over the whole bitmap of its arena.
BlocksOf(x) ==
    x.bitmap_index .. (x.bitmap_index + mi_block_count_of_size(x.size) - 1)

\* C1: no double allocation.  Under every interleaving of the threads'
\* allocations and matching frees, no allocation is held twice and two
\* allocations held at the same time in the same arena share no block.
C1_NoDoubleAllocation ==
    \A x \in BagToSet(live) :
        /\ CopiesIn(x, live) = 1
        /\ \A y \in BagToSet(live) :
              (x # y /\ x.slot = y.slot) => BlocksOf(x) \cap BlocksOf(y) = {}

\* Two allocations are held in one field of the same arena while another
\* thread's compare-and-swap is about to fail on a stale value of that field.
C1_Witness ==
    \E x \in BagToSet(live), y \in BagToSet(live), t \in Threads :
        /\ x # y
        /\ x.slot = y.slot
        /\ mi_bitmap_index_field(x.bitmap_index) = mi_bitmap_index_field(y.bitmap_index)
        /\ pc[t] = "cas"
        /\ loc[t].i = x.slot
        /\ loc[t].idx = mi_bitmap_index_field(x.bitmap_index)
        /\ loc[t].map # InUse(loc[t].arena, loc[t].idx)

\* What the claims about _mi_arena_free speak of, read off the arguments of
\* the call thread t is in and off the bitmaps before its step.
Freeing(t) == pc[t] = "free" /\ pc'[t] = "done"
CeilBlocks(size) ==
    CHOOSE n \in 0 .. (size + 1) :
        /\ n * MI_ARENA_BLOCK_SIZE >= size
        /\ n = 0 \/ (n - 1) * MI_ARENA_BLOCK_SIZE < size
HandleSlot(memid) == mi_memid_arena_index(memid)
HandlePosition(memid) == mi_memid_bitmap_index(memid)
ValidHandle(memid) ==
    /\ memid # MI_MEMID_OS
    /\ HandleSlot(memid) < MI_MAX_ARENAS
    /\ mi_arenas[HandleSlot(memid)] # NULL
    /\ HandlePosition(memid) \div MI_BITMAP_FIELD_BITS
         < ArenaAt(HandleSlot(memid)).field_count
RangeOf(memid, size) ==
    HandlePosition(memid) .. (HandlePosition(memid) + CeilBlocks(size) - 1)
InOneField(memid, size) ==
    (HandlePosition(memid) % MI_BITMAP_FIELD_BITS) + CeilBlocks(size)
        <= MI_BITMAP_FIELD_BITS
\* Bit q of the in-use bitmap of the arena in slot i is 1.
BitInUse(i, q) ==
    /\ q \div MI_BITMAP_FIELD_BITS < ArenaAt(i).field_count
    /\ (q % MI_BITMAP_FIELD_BITS) \in InUse(mi_arenas[i], q \div MI_BITMAP_FIELD_BITS)
SomeBitClear(memid, size) ==
    \E q \in RangeOf(memid, size) : ~BitInUse(HandleSlot(memid), q)

\* C2 as claimed: every free with an id of an existing arena and field is
\* reported as fatal exactly when some bit of its block range is clear.
C2_AsClaimed ==
    [][\A t \in Threads :
        (Freeing(t) /\ ValidHandle(loc[t].memid))
        => (SomeBitClear(loc[t].memid, loc[t].size)
              <=> res'[t].fatal # "none")]_vars

\* C2, amended: a free of a non-NULL pointer with an id of an existing arena
\* and field, whose block range lies within one bitmap field, is reported as
\* fatal exactly when some bit of the range is clear in the in-use bitmap.
C2_DoubleFreeReported ==
    [][\A t \in Threads :
        (/\ Freeing(t)
         /\ loc[t].p # NULL
         /\ ValidHandle(loc[t].memid)
         /\ InOneField(loc[t].memid, loc[t].size))
        => (SomeBitClear(loc[t].memid, loc[t].size)
              <=> res'[t].fatal # "none")]_vars

\* A second free of an allocation has been reported as fatal.
C2_Witness ==
    \E t \in Threads :
        /\ pc[t] = "done"
        /\ res[t].op = "free"
        /\ res[t].fatal = "already freed block"
        /\ res[t].p # NULL
        /\ ValidHandle(res[t].memid)
        /\ InOneField(res[t].memid, res[t].size)
        /\ \A q \in RangeOf(res[t].memid, res[t].size) :
              ~BitInUse(HandleSlot(res[t].memid), q)

\* C3: a free rejected as a double free leaves every in-use bitmap as it was.
C3_RejectedFreeChangesNothing ==
    [][\A t \in Threads :
        (Freeing(t) /\ res'[t].fatal = "already freed block")
        => InUseMaps' = InUseMaps]_vars

\* C4: a free of a non-NULL pointer with a non-sentinel id is reported as fatal
\* and changes no descriptor when the id's arena index is not below
\* MI_MAX_ARENAS, its slot is empty or its field index is not below
\* field_count; and the registry is never read outside its slots.
C4_CorruptHandleRejected ==
    [][\A t \in Threads :
        (/\ Freeing(t)
         /\ loc[t].p # NULL
         /\ loc[t].size # 0
         /\ loc[t].memid # MI_MEMID_OS
         /\ ~ValidHandle(loc[t].memid))
        => (/\ res'[t].fatal # "none"
            /\ arenas' = arenas
            /\ oob' = FALSE)]_vars

\* C5: an arena allocation followed at once by the free of what it returned
\* brings every in-use bitmap back to what it was before the allocation, and
\* the free reports nothing.
C5_ClaimUnclaimRoundTrip ==
    trip.phase = "freed"
    => (InUseMaps = trip.before /\ res[1].op = "free" /\ res[1].fatal = "none")

\* Such a round trip of more than one block, made while another allocation is
\* held.
C5_Witness ==
    /\ trip.phase = "freed"
    /\ CeilBlocks(trip.size) > 1
    /\ BagCardinality(live) > 0

\* C6: for every arena index the encoder admits (below 0xFE, so every index
\* below the build's MI_MAX_ARENAS) and every bitmap position that fits in
\* the bits above the low 8, the id is not the OS sentinel and decodes to the
\* same pair.
C6_MemidRoundTrip ==
    (/\ codec.op \in {"id", "indices"}
     /\ codec.arena_index < 254
     /\ codec.bitmap_index < SIZE_MOD \div 256)
    => /\ codec.memid # MI_MEMID_OS
       /\ codec.op = "indices"
          => (/\ codec.arena_idx = codec.arena_index
              /\ codec.bitmap_idx = codec.bitmap_index)

\* The pair of the last slot and the largest position that fits was encoded
\* and decoded.
C6_Witness ==
    /\ codec.op = "indices"
    /\ codec.arena_index = MI_MAX_ARENAS - 1
    /\ codec.bitmap_index = (SIZE_MOD \div 256) - 1
    /\ codec.arena_idx = codec.arena_index

\* C7: with an alignment of at most MI_SEGMENT_ALIGN, a request of exactly
\* MI_ARENA_MIN_OBJ_SIZE or exactly MI_ARENA_MAX_OBJ_SIZE is tried on the
\* arenas, a request one byte smaller than the minimum or larger than the
\* maximum goes straight to the OS, and a request that is tried asks for 1 to
\* MI_BITMAP_FIELD_BITS blocks.
C7_EligibilityBoundary ==
    \A t \in Threads :
        (/\ pc[t] = "done"
         /\ res[t].op = "alloc"
         /\ res[t].alignment <= MI_SEGMENT_ALIGN)
        => /\ res[t].size = MI_ARENA_BLOCK_SIZE \div 2 => res[t].tried
           /\ res[t].size = (MI_ARENA_BLOCK_SIZE \div 2) - 1
                => (~res[t].tried /\ res[t].path = "os")
           /\ res[t].size = MI_BITMAP_FIELD_BITS * MI_ARENA_BLOCK_SIZE
                => res[t].tried
           /\ res[t].size > MI_BITMAP_FIELD_BITS * MI_ARENA_BLOCK_SIZE
                => (~res[t].tried /\ res[t].path = "os")
           /\ res[t].tried
                => (1 <= res[t].bcount /\ res[t].bcount <= MI_BITMAP_FIELD_BITS)

\* A request of exactly the minimum size was served by an arena.
C7_Witness ==
    \E t \in Threads :
        /\ pc[t] = "done"
        /\ res[t].op = "alloc"
        /\ res[t].size = MI_ARENA_BLOCK_SIZE \div 2
        /\ res[t].path = "arena"

\* The arena `a` is on another node than the caller's.
OtherNode(a, numa_node) ==
    arenas[a].numa_node >= 0 /\ arenas[a].numa_node # numa_node
\* Pass 1 tried to claim, and failed, on every arena that was visible when the
\* call began, is on the caller's node or on any, and is compatible with the
\* large pages flag.
MatchingAllFailed(visible, failed, large, numa_node) ==
    \A j \in visible :
        (/\ ~OtherNode(mi_arenas[j], numa_node)
         /\ (large \/ ~ArenaAt(j).is_large))
        => <<1, j>> \in failed

\* C8: a claim is tried on an arena of another node, and an allocation is
\* served from one, only after pass 1 tried and failed on every visible,
\* compatible arena of the caller's node or of any node.
C8_NumaPreference ==
    \A t \in Threads :
        /\ (/\ loc[t].op = "alloc"
            /\ loc[t].arena # NULL
            /\ OtherNode(loc[t].arena, loc[t].numa_node))
           => MatchingAllFailed(loc[t].visible, loc[t].failed, loc[t].large,
                                loc[t].numa_node)
        /\ (/\ pc[t] = "done"
            /\ res[t].op = "alloc"
            /\ res[t].path = "arena"
            /\ OtherNode(res[t].arena, res[t].numa_node))
           => MatchingAllFailed(res[t].visible, res[t].failed,
                                res[t].large_arg = "true", res[t].numa_node)

\* An allocation was served from an arena of another node after the claim on
\* an arena of the caller's node had failed.
C8_Witness ==
    \E t \in Threads :
        /\ pc[t] = "done"
        /\ res[t].op = "alloc"
        /\ res[t].path = "arena"
        /\ OtherNode(res[t].arena, res[t].numa_node)
        /\ \E j \in res[t].visible :
              /\ ArenaAt(j).numa_node = res[t].numa_node
              /\ <<1, j>> \in res[t].failed

\* C9: an allocation whose large flag is false or absent is never served
\* from, nor tries a claim on, an arena with is_large; and an allocation
\* served by an arena returns that arena's is_large as its large flag.
C9_LargePageSafety ==
    \A t \in Threads :
        /\ (loc[t].op = "alloc" /\ loc[t].arena # NULL /\ loc[t].large_arg # "true")
           => ~arenas[loc[t].arena].is_large
        /\ (pc[t] = "done" /\ res[t].op = "alloc" /\ res[t].path = "arena")
           => /\ res[t].large_arg # "true" => ~arenas[res[t].arena].is_large
              /\ res[t].large = arenas[res[t].arena].is_large

\* A request without the large flag went to the OS although a visible arena
\* of large pages, on its node, had room for it in a field.
C9_Witness ==
    \E t \in Threads :
        /\ pc[t] = "done"
        /\ res[t].op = "alloc"
        /\ res[t].path = "os"
        /\ res[t].tried
        /\ res[t].large_arg = "false"
        /\ \E j \in Visible :
              /\ ArenaAt(j).is_large
              /\ ~OtherNode(mi_arenas[j], res[t].numa_node)
              /\ \E idx \in 0 .. (ArenaAt(j).field_count - 1) :
                    mi_bitmap_find_fit(InUse(mi_arenas[j], idx), res[t].bcount, 0)
                        < MI_BITMAP_FIELD_BITS

\* The pages the interleaving driver asked of node n.
RequestedOf(requested, n) ==
    IF n + 1 <= Len(requested) THEN requested[n + 1][2] ELSE 0
RECURSIVE SumRequested(_)
SumRequested(requested) ==
    IF requested = << >> THEN 0
    ELSE requested[1][2] + SumRequested(Tail(requested))

\* C10: when no reservation fails, an interleaved reservation of P > 0 pages
\* over K nodes asks, in increasing node order, floor(P/K)+1 pages of each of
\* the first P mod K nodes and floor(P/K) of each other node (asking nothing
\* of a node that gets 0), P pages in all.
C10_InterleavingFairness ==
    \A t \in Threads :
        (/\ pc[t] = "done"
         /\ res[t].op = "interleave"
         /\ res[t].err = 0
         /\ res[t].pages > 0)
        => LET P == res[t].pages
               K == res[t].numa_count
               requested == res[t].requested
           IN /\ K = numa_count
              /\ \A k \in 1 .. Len(requested) : requested[k][1] = k - 1
              /\ \A n \in 0 .. (K - 1) :
                    RequestedOf(requested, n) =
                        IF n < P % K THEN (P \div K) + 1 ELSE P \div K
              /\ SumRequested(requested) = P

\* A budget that does not divide evenly, of more pages than nodes, was spread
\* over more than two nodes.
C10_Witness ==
    \E t \in Threads :
        /\ pc[t] = "done"
        /\ res[t].op = "interleave"
        /\ res[t].err = 0
        /\ res[t].numa_count > 2
        /\ res[t].pages > res[t].numa_count
        /\ res[t].pages % res[t].numa_count > 0

\* C11: when every slot of the registry holds an arena, a call of
\* mi_reserve_huge_os_pages_at that reserved its pages and built its
\* descriptor, and whose mi_arena_add failed, returns a failure status.
C11_RegistryFullReported ==
    [][\A t \in Threads :
        (/\ pc[t] = "rollback"
         /\ ~ilv[t].active
         /\ \A i \in Slots : mi_arenas[i] # NULL
         /\ pc'[t] = "done")
        => res'[t].err # 0]_vars

\* The in-use bitmaps with the block range of (memid, size) cleared.
WithRangeCleared(maps, memid, size) ==
    [maps EXCEPT ![mi_arenas[HandleSlot(memid)]]
                  [HandlePosition(memid) \div MI_BITMAP_FIELD_BITS] =
        @ \ {q % MI_BITMAP_FIELD_BITS : q \in RangeOf(memid, size)}]

\* C12: an allocation's result has the OS id and the zero flag exactly when
\* it came from the OS, and otherwise an id that is not the OS id and decodes
\* to the slot of the serving arena and to the position of the claimed bits;
\* a free goes to the OS exactly when its id is the OS id, and the free of an
\* arena allocation clears exactly the bits that allocation was granted.
C12_MemidTagging ==
    [][\A t \in Threads :
        /\ (pc'[t] = "done" /\ res'[t].op = "alloc")
           => /\ res'[t].path = "os"
                   <=> (res'[t].memid = MI_MEMID_OS /\ res'[t].is_zero)
              /\ res'[t].path = "arena"
                   => /\ res'[t].memid # MI_MEMID_OS
                      /\ HandleSlot(res'[t].memid) < MI_MAX_ARENAS
                      /\ mi_arenas'[HandleSlot(res'[t].memid)] = res'[t].arena
                      /\ HandlePosition(res'[t].memid) = res'[t].bitmap_index
                      /\ \A q \in BlocksOf(res'[t]) :
                            (q % MI_BITMAP_FIELD_BITS) \in
                                arenas'[res'[t].arena].mem[q \div MI_BITMAP_FIELD_BITS]
        /\ (Freeing(t) /\ loc[t].p # NULL /\ loc[t].size # 0)
           => (res'[t].how = "os" <=> loc[t].memid = MI_MEMID_OS)
        /\ (Freeing(t) /\ t = 1 /\ trip.phase = "freeing")
           => /\ res'[t].how = "arena"
              /\ InUseMaps' = WithRangeCleared(InUseMaps, loc[t].memid, loc[t].size)
      ]_vars

\* An allocation served by the arena of slot 1 was freed with the id and the
\* size it returned.
C12_Witness ==
    /\ trip.phase = "freed"
    /\ HandleSlot(trip.memid) = 1
    /\ res[1].op = "free"
    /\ res[1].how = "arena"

\* The words of descriptor a's storage that hold its dirty bitmap.
DirtyWords(a) ==
    {arenas[a].dirty_base + idx : idx \in 0 .. (arenas[a].field_count - 1)}
        \cap (0 .. (arenas[a].words - 1))

\* C13: an arena-served allocation returns is_zero = true exactly when none
\* of its blocks was part of an earlier allocation served by that arena, and
\* no step clears a bit of a dirty bitmap.
C13_ZeroFlagAccuracy ==
    [][/\ \A t \in Threads :
            (pc[t] = "dirty" /\ pc'[t] = "done")
            => (res'[t].is_zero
                  <=> \A q \in BlocksOf(res'[t]) : <<res'[t].arena, q>> \notin ever)
       /\ \A a \in ArenaIds : \A w \in DirtyWords(a) :
            arenas[a].mem[w] \subseteq arenas'[a].mem[w]
      ]_vars

\* Bits block_count and above of the last field of descriptor a.
TrailingBits(a) ==
    arenas[a].block_count .. ((arenas[a].field_count * MI_BITMAP_FIELD_BITS) - 1)

\* C14: under allocations and matching frees, the bits past block_count stay
\* set in the in-use bitmap, every range granted or being granted lies below
\* block_count, and every pointer range returned lies inside the arena's
\* memory.
C14_TrailingBitsKept ==
    /\ \A a \in ArenaIds : \A q \in TrailingBits(a) :
          (q % MI_BITMAP_FIELD_BITS) \in InUse(a, q \div MI_BITMAP_FIELD_BITS)
    /\ \A x \in BagToSet(live) :
          BlocksOf(x) \subseteq 0 .. (ArenaAt(x.slot).block_count - 1)
    /\ \A t \in Threads :
          /\ pc[t] \in {"cursor", "dirty"}
             => loc[t].bitmap_index + loc[t].bcount <= arenas[loc[t].arena].block_count
          /\ (pc[t] = "done" /\ res[t].op = "alloc" /\ res[t].path = "arena")
             => /\ arenas[res[t].arena].start <= res[t].p
                /\ res[t].p + res[t].size
                     <= arenas[res[t].arena].start
                          + (arenas[res[t].arena].block_count * MI_ARENA_BLOCK_SIZE)

\* An allocation that ends at the last block is held, the arena has trailing
\* bits, and a request that found no room in it went to the OS.
C14_Witness ==
    \E x \in BagToSet(live), t \in Threads :
        /\ TrailingBits(mi_arenas[x.slot]) # {}
        /\ x.bitmap_index + mi_block_count_of_size(x.size)
             = ArenaAt(x.slot).block_count
        /\ pc[t] = "done"
        /\ res[t].op = "alloc"
        /\ res[t].path = "os"
        /\ <<1, x.slot>> \in res[t].failed

\* Some field of descriptor a has n contiguous bits that are 0.
HasFit(a, n) ==
    \E idx \in 0 .. (arenas[a].field_count - 1) :
        mi_bitmap_find_fit(InUse(a, idx), n, 0) < MI_BITMAP_FIELD_BITS

\* C15: with one thread, mi_arena_alloc fails only when no field of the arena
\* has bcount contiguous clear bits and succeeds only when one has, wherever
\* search_idx starts; it tries at most field_count fields; and search_idx is
\* the field of the last claim, below field_count.
C15_ScanComplete ==
    [][\A t \in Threads :
        /\ (pc[t] \in {"field", "cas"} /\ pc'[t] = "scan")
           => ~HasFit(loc[t].arena, loc[t].bcount)
        /\ (pc[t] = "cas" /\ pc'[t] = "cursor")
           => HasFit(loc[t].arena, loc[t].bcount)
        /\ pc[t] \in {"field", "cas"} => loc[t].visited < loc[t].fcount
        /\ (pc[t] = "cursor" /\ pc'[t] = "dirty")
           => /\ arenas'[loc[t].arena].search_idx
                    = mi_bitmap_index_field(loc[t].bitmap_index)
              /\ arenas'[loc[t].arena].search_idx < arenas[loc[t].arena].field_count
        /\ \A a \in ArenaIds : arenas[a].search_idx < arenas[a].field_count
      ]_vars

\* A claim has succeeded in a field below the one search_idx pointed at: the
\* scan wrapped around.
C15_Witness ==
    \E t \in Threads :
        /\ pc[t] = "cursor"
        /\ loc[t].visited > 0
        /\ loc[t].idx < arenas[loc[t].arena].search_idx

\* A call of mi_arena_add is between its steps.
Publishing(t) == pc[t] \in {"publish", "rollback"}
NonEmptySlots == {i \in Slots : mi_arenas[i] # NULL}

\* C16: in every interleaving of calls of mi_arena_add, the ones that find
\* the registry full included, a publish writes a slot below MI_MAX_ARENAS
\* that was empty and that no other call in flight has reserved, a slot that
\* is not empty never changes, and the slot of every allocation held or being
\* freed is not empty.
C16_SlotStability ==
    [][/\ \A t \in Threads :
            /\ pc[t] = "publish"
               => /\ loc[t].i < MI_MAX_ARENAS
                  /\ mi_arenas[loc[t].i] = NULL
                  /\ \A u \in Threads \ {t} :
                        pc[u] = "publish" => loc[u].i # loc[t].i
            /\ (pc[t] = "publish" /\ pc'[t] # "publish")
               => mi_arenas' = [mi_arenas EXCEPT ![loc[t].i] = loc[t].arena]
            /\ Freeing(t) => res'[t].fatal # "non-existent arena"
       /\ \A i \in Slots : mi_arenas[i] # NULL => mi_arenas'[i] = mi_arenas[i]
       /\ \A x \in BagToSet(live) : mi_arenas[x.slot] # NULL
      ]_vars

\* After a call of mi_arena_add found the registry full, an allocation from
\* the arena of the last slot was freed while another call of mi_arena_add
\* is rolling back.
C16_Witness ==
    \E t \in Threads, u \in Threads :
        /\ pc[t] = "done"
        /\ res[t].op = "free"
        /\ res[t].how = "arena"
        /\ res[t].fatal = "none"
        /\ HandleSlot(res[t].memid) = MI_MAX_ARENAS - 1
        /\ pc[u] = "rollback"

\* C17: when no call of mi_arena_add is in flight, the slots that are not
\* empty are 0 .. n-1 with n the counter, so that a scan stopping at the
\* first empty slot visits them all; an empty slot below one that is not
\* empty is reserved by a call that has not stored its pointer yet; and an
\* allocation that scans meanwhile returns a valid result.
C17_ContiguousRegistry ==
    /\ (\A t \in Threads : ~Publishing(t))
       => /\ NonEmptySlots = 0 .. (mi_arena_count - 1)
          /\ Visible = NonEmptySlots
    /\ \A i \in Slots, j \in Slots :
          (i < j /\ mi_arenas[i] = NULL /\ mi_arenas[j] # NULL)
          => \E t \in Threads : pc[t] = "publish" /\ loc[t].i = i
    /\ \A t \in Threads :
          (pc[t] = "done" /\ res[t].op = "alloc")
          => IF res[t].path = "arena"
             THEN /\ res[t].memid # MI_MEMID_OS
                  /\ mi_arenas[res[t].slot] = res[t].arena
                  /\ HandleSlot(res[t].memid) = res[t].slot
                  /\ \A q \in BlocksOf(res[t]) :
                        q < arenas[res[t].arena].block_count
             ELSE res[t].memid = MI_MEMID_OS
    /\ \A x \in BagToSet(live) : \A q \in BlocksOf(x) : BitInUse(x.slot, q)

\* While slot 0 is reserved and still empty and slot 1 holds an arena with
\* room, an allocation scanned the registry and fell back to the OS.
C17_Witness ==
    \E t \in Threads, u \in Threads :
        /\ mi_arenas[0] = NULL
        /\ mi_arenas[1] # NULL
        /\ pc[u] = "publish"
        /\ loc[u].i = 0
        /\ pc[t] = "done"
        /\ res[t].op = "alloc"
        /\ res[t].tried
        /\ res[t].path = "os"
        /\ HasFit(mi_arenas[1], res[t].bcount)

\* C18 as claimed: no step decreases the counter.
C18_AsClaimed ==
    [][mi_arena_count' >= mi_arena_count]_vars

\* The counter, capped at the number of slots.
CappedCount(count) == IF count > MI_MAX_ARENAS THEN MI_MAX_ARENAS ELSE count

\* C18, amended: the counter capped at MI_MAX_ARENAS never decreases; the
\* counter itself decreases only by one, from a value above MI_MAX_ARENAS, in
\* the roll back of a call of mi_arena_add that found the registry full.
C18_CounterMonotone ==
    [][/\ CappedCount(mi_arena_count') >= CappedCount(mi_arena_count)
       /\ mi_arena_count' < mi_arena_count
          => /\ mi_arena_count > MI_MAX_ARENAS
             /\ mi_arena_count' = mi_arena_count - 1
             /\ \E t \in Threads : pc[t] = "rollback" /\ pc'[t] = "done"
      ]_vars

\* Two calls of mi_arena_add found the registry full and have rolled back.
C18_Witness ==
    /\ Len(arenas) = MI_MAX_ARENAS + 2
    /\ mi_arena_count = MI_MAX_ARENAS
    /\ \A t \in Threads : ~Publishing(t)

\* C19: _mi_arena_alloc, which asks for the alignment MI_ARENA_BLOCK_SIZE,
\* never tries an arena: for every size and registry it goes to the OS,
\* returns the OS id and changes no descriptor.
C19_AllocNeverUsesArena ==
    [][\A t \in Threads :
        /\ (loc[t].op = "alloc" /\ loc[t].alignment = MI_ARENA_BLOCK_SIZE)
           => (pc[t] = "os" /\ arenas' = arenas)
        /\ (pc'[t] = "done" /\ res'[t].op = "alloc"
              /\ res'[t].alignment = MI_ARENA_BLOCK_SIZE)
           => /\ ~res'[t].tried
              /\ res'[t].path = "os"
              /\ res'[t].memid = MI_MEMID_OS
      ]_vars

\* _mi_arena_alloc returned OS memory for a size within the arena limits,
\* with large pages allowed, while an arena of the caller's node had room.
C19_Witness ==
    \E t \in Threads :
        /\ pc[t] = "done"
        /\ res[t].op = "alloc"
        /\ res[t].alignment = MI_ARENA_BLOCK_SIZE
        /\ res[t].size = MI_ARENA_MIN_OBJ_SIZE
        /\ res[t].large_arg = "true"
        /\ res[t].path = "os"
        /\ \E j \in Visible :
              /\ ~OtherNode(mi_arenas[j], res[t].numa_node)
              /\ HasFit(mi_arenas[j], res[t].bcount)

\* C20: the field_count words of every descriptor's dirty bitmap lie inside
\* its storage of 1 + 2*field_count bitmap words and after the field_count
\* words of its in-use bitmap, and no claim of dirty bits is made on a word
\* outside the storage.
C20_BitmapStorageBounds ==
    /\ \A a \in ArenaIds :
          /\ arenas[a].dirty_base >= arenas[a].field_count
          /\ arenas[a].dirty_base + arenas[a].field_count <= arenas[a].words
    /\ \A t \in Threads :
          pc[t] = "dirty"
          => DirtyInside(loc[t].arena, mi_bitmap_index_field(loc[t].bitmap_index))
====
